---------------------------- MODULE Spec2Model ----------------------------
(***************************************************************************)
(* cjson-bindings: the serde bridge over cJSON.                            *)
(*                                                                         *)
(*   src/src/ser.rs    JsonSerializer   (stack, stack_name) -> cJSON tree  *)
(*   src/src/de.rs     JsonDeserializer (stack, stack_name) <- cJSON tree  *)
(*   src/src/cjson.rs  CJson / CJsonRef, the owning / borrowed handles     *)
(*   src/src/lib.rs    to_json                                             *)
(*                                                                         *)
(* A pass is run one handler at a time: `work` holds what the visit of the *)
(* typed value still has to call, in call order.  serialize_vec,           *)
(* serialize_array and deserialize_vec call back into the element's visit, *)
(* so they are split at those calls (an enter step, the element visits,    *)
(* an exit step).                                                          *)
(*                                                                         *)
(* cJSON nodes built by the serializer live in `heap` (a handle is a node  *)
(* id, CJson::clone copies the id); every node counts its cJSON_Delete     *)
(* calls in `rel`.  The deserializer only holds deep copies, so each of    *)
(* its stack entries is a tree value with the id of its allocation.        *)
(***************************************************************************)
EXTENDS Integers, Sequences, FiniteSets, TLC

\* ------------------------------------------------------------------ bounds

\* longest fixed array / Vec of a typed value
MaxLen == 2
\* byte values of a buffer are drawn from 0 .. MaxByte, 171 and 255
MaxByte == 1

\* --------------------------------------------------------- Result<T, E>

Ok(v) == [ok |-> TRUE, v |-> v]

Err(e) == [ok |-> FALSE, e |-> e]

\* ---------------------------------------------------------------- numbers
\* A JSON number is an integer hi * Base + lo with 0 <= lo < Base, so that
\* the 32-bit limits (and 2^53) fit TLC's 32-bit integers.  Only integral
\* numbers below 2^54 in magnitude are modelled.

Base == 2^24

Num(hi, lo) == <<hi, lo>>

Small(n) == IF n >= 0 THEN <<0, n>> ELSE <<-1, Base + n>>

NumLe(a, b) == a[1] < b[1] \/ (a[1] = b[1] /\ a[2] <= b[2])

NumLt(a, b) == a[1] < b[1] \/ (a[1] = b[1] /\ a[2] < b[2])

IsNeg(a) == a[1] < 0

NumSucc(a) == IF a[2] = Base - 1 THEN <<a[1] + 1, 0>> ELSE <<a[1], a[2] + 1>>

NumPred(a) == IF a[2] = 0 THEN <<a[1] - 1, Base - 1>> ELSE <<a[1], a[2] - 1>>

NumNeg(a) == IF a[2] = 0 THEN <<0 - a[1], 0>> ELSE <<0 - a[1] - 1, Base - a[2]>>

NumAbs(a) == IF IsNeg(a) THEN NumNeg(a) ELSE a

\* 2^e for 24 <= e
Pow2(e) == <<2^(e - 24), 0>>

U8_MAX == Small(2^8 - 1)

U16_MAX == Small(2^16 - 1)

U32_MAX == NumPred(Pow2(32))

I8_MIN == Small(0 - 2^7)

I8_MAX == Small(2^7 - 1)

I16_MIN == Small(0 - 2^15)

I16_MAX == Small(2^15 - 1)

I32_MIN == NumNeg(Pow2(31))

I32_MAX == NumPred(Pow2(31))

\* `v as f64` of an integer: exact up to 2^53, then round-to-nearest-even
\* on the even integers (the doubles of [2^53, 2^54)).
as_f64(v) ==
    LET m == NumAbs(v)
        r == IF NumLe(m, Pow2(53)) \/ m[2] % 2 = 0 THEN m
             ELSE IF (m[2] + 1) % 4 = 0 THEN NumSucc(m) ELSE NumPred(m)
    IN IF IsNeg(v) THEN NumNeg(r) ELSE r

\* `n as u64` / `n as i64` of an integral double below 2^54 in magnitude
\* keep the value (the casts saturate only from 2^63 on).
as_u64(n) == n

as_i64(n) == n

\* ------------------------------------------------------------------- text
\* A string value is a sequence of one-character strings; NUL stands for an
\* interior zero byte (CString::new refuses it).

NUL == "NUL"

HasNul(s) == \E i \in 1..Len(s) : s[i] = NUL

HexDigits == <<"0", "1", "2", "3", "4", "5", "6", "7",
               "8", "9", "a", "b", "c", "d", "e", "f">>

UpperHex == <<"A", "B", "C", "D", "E", "F">>

\* a variant of hex_of_byte without the zero padding ("{:x}")
hex_unpadded(b) ==
    IF b < 16 THEN <<HexDigits[b + 1]>> ELSE <<HexDigits[(b \div 16) + 1], HexDigits[(b % 16) + 1]>>

\* write!(.., "{:02x}", byte)
hex_of_byte(b) == <<HexDigits[(b \div 16) + 1], HexDigits[(b % 16) + 1]>>

\* a variant of hex_string that puts a separator between the bytes
RECURSIVE hex_separated(_)
hex_separated(v) ==
    IF v = <<>> THEN <<>>
    ELSE IF Len(v) = 1 THEN hex_of_byte(Head(v))
    ELSE hex_of_byte(Head(v)) \o <<":">> \o hex_separated(Tail(v))

RECURSIVE hex_string(_)
hex_string(v) == IF v = <<>> THEN <<>> ELSE hex_of_byte(Head(v)) \o hex_string(Tail(v))

is_ascii_hexdigit(c) ==
    \/ \E i \in 1..16 : HexDigits[i] = c
    \/ \E i \in 1..6 : UpperHex[i] = c

hex_value(c) ==
    IF \E i \in 1..16 : HexDigits[i] = c
    THEN (CHOOSE i \in 1..16 : HexDigits[i] = c) - 1
    ELSE (CHOOSE i \in 1..6 : UpperHex[i] = c) + 9


\* ------------------------------------------------------------ typed values
\* What a derived Serialize / Deserialize visits: scalars, byte buffers,
\* records, fixed arrays and Vecs.  A record's value is the sequence of its
\* fields' values in declaration order.

Scalar(k) == [t |-> k]

Bytes(n) == [t |-> "bytes", n |-> n]

Struct(fields) == [t |-> "struct", fields |-> fields]

Array(n, elem) == [t |-> "array", n |-> n, elem |-> elem]

Vec(elem) == [t |-> "vec", elem |-> elem]

F(name, ty) == [name |-> name, ty |-> ty]

\* a type with a hand-written impl that visits `inner` under a name of its
\* own choice, whatever name its caller passed
Named(own, inner) == [t |-> "named", own |-> own, inner |-> inner]

UnsignedKinds == {"u8", "u16", "u32", "u64"}

SignedKinds == {"i8", "i16", "i32", "i64"}

IntKinds == UnsignedKinds \cup SignedKinds

\* the records of tests/test_array_serialization.rs and
\* tests/test_array_deserialization.rs, cut down to the shapes they combine
UserConfig == Struct(<<F("user", Scalar("u32")), F("password", Scalar("u32"))>>)

WifiConfig == Struct(<<F("auth", Scalar("u8")), F("enabled", Scalar("bool"))>>)

Config(n) == Struct(<<F("version", Scalar("u8")), F("users", Array(n, UserConfig))>>)

FullConfig(n) ==
    Struct(<<F("version", Scalar("u8")), F("users", Array(n, UserConfig)),
             F("wifi", WifiConfig), F("timezone", Scalar("u16"))>>)

Items(n) == Struct(<<F("items", Array(n, Scalar("u32")))>>)

ItemsVec == Struct(<<F("items", Vec(Scalar("u32")))>>)

UsersVec == Struct(<<F("users", Vec(UserConfig)), F("version", Scalar("u8"))>>)

Serial(n) == Struct(<<F("serial", Bytes(n))>>)

Single(k) == Struct(<<F("version", Scalar(k))>>)

Hostname == Struct(<<F("hostname", Scalar("string"))>>)

Matrix == Struct(<<F("items", Vec(Vec(Scalar("u8"))))>>)

\* a fixed array of fixed arrays
Grid == Struct(<<F("items", Array(1, Array(1, Scalar("u8"))))>>)

\* a type with a hand-written impl that visits its parts one after another,
\* each under the name it was given itself
Script(parts) == [t |-> "script", parts |-> parts]

\* values that are no record at the root: a scalar, a Vec, a fixed array, a
\* record that opens itself under a name, and a record followed by more
Rootless ==
    {[ty |-> Scalar("u32"), val |-> Small(5)],
     [ty |-> Scalar("string"), val |-> <<"a", "b">>],
     [ty |-> Scalar("bool"), val |-> TRUE],
     [ty |-> Bytes(1), val |-> <<171>>],
     [ty |-> Vec(Scalar("u32")), val |-> <<Small(1001)>>],
     [ty |-> Array(1, Scalar("u32")), val |-> <<Small(1001)>>],
     [ty |-> Named("cfg", Struct(<<F("version", Scalar("u8"))>>)), val |-> <<Small(1)>>],
     [ty |-> Script(<<Struct(<<F("version", Scalar("u8"))>>), Scalar("u8")>>),
      val |-> << <<Small(1)>>, Small(2) >>],
     [ty |-> Script(<<Struct(<<F("version", Scalar("u8"))>>), Vec(Scalar("u32"))>>),
      val |-> << <<Small(1)>>, <<Small(1001)>> >>],
     [ty |-> Script(<<Struct(<<F("version", Scalar("u8"))>>),
                      Named("cfg", Struct(<<F("version", Scalar("u8"))>>))>>),
      val |-> << <<Small(1)>>, <<Small(2)>> >>]}

\* hand-written impls that open a record under the empty name where a root
\* record is open or was closed already, and one that writes nothing
Wrap == Struct(<<F("inner", Named("", Struct(<<F("version", Scalar("u8"))>>)))>>)

Reopened ==
    {[ty |-> Wrap, val |-> << <<Small(1)>> >>],
     [ty |-> Script(<<Struct(<<F("version", Scalar("u8"))>>),
                      Struct(<<F("version", Scalar("u8"))>>)>>),
      val |-> << <<Small(1)>>, <<Small(2)>> >>],
     [ty |-> Script(<<>>), val |-> <<>>]}

\* a record field named like the record that holds it
Nested ==
    Struct(<<F("node", Struct(<<F("node", Struct(<<F("v", Scalar("u8"))>>)),
                                F("w", Scalar("u8"))>>))>>)

\* a Vec named like the record that holds it
ItemsInItems == Struct(<<F("items", Struct(<<F("items", Vec(Scalar("u32")))>>))>>)

\* a hand-written record that writes one name twice
Twice == Struct(<<F("version", Scalar("u32")), F("version", Scalar("u32"))>>)

\* Vecs of each scalar kind, and Vecs whose elements pass a name of their own
ListOf(elem) == Struct(<<F("list", Vec(elem))>>)

ListKinds ==
    {Scalar("bool"), Scalar("string"), Bytes(1),
     Named("elem", Scalar("u32")), Named("elem", UserConfig)}

\* the values of a list of n elements of a kind: element i from 1
ListVals(elem, n) ==
    CASE elem.t = "bool" -> {[i \in 1..n |-> i % 2 = 1]}
      [] elem.t = "string" -> {[i \in 1..n |-> <<"a", "b">>], [i \in 1..n |-> <<"a", NUL>>]}
      [] elem.t = "bytes" -> {[i \in 1..n |-> <<171>>]}
      [] elem.t = "named" /\ elem.inner.t = "struct" -> {[i \in 1..n |-> <<Small(100), Small(200)>>]}
      [] OTHER -> {[i \in 1..n |-> Small(1000 + i)]}

\* element i (from 0) of the users of the tests: 100/200, 300/400, ...
UserVal(i) == <<Small(100 + 200 * i), Small(200 + 200 * i)>>

UsersVal(n) == [i \in 1..n |-> UserVal(i - 1)]

ItemsVal(n) == [i \in 1..n |-> Small(1000 + i)]

ByteVals == (0..MaxByte) \cup {171, 255}

RECURSIVE Buffers(_)
Buffers(n) ==
    IF n = 0 THEN {<<>>}
    ELSE {<<b>> \o r : b \in ByteVals, r \in Buffers(n - 1)}

\* integers around every limit de.rs checks, 300 and
\* 2^53 + 1 (the first integer `as f64` cannot hold)
NumVals ==
    {Small(0), Small(1), Small(300), Small(0 - 1),
     I8_MAX, NumSucc(I8_MAX), I8_MIN, NumPred(I8_MIN),
     U8_MAX, NumSucc(U8_MAX),
     I16_MAX, NumSucc(I16_MAX), I16_MIN, NumPred(I16_MIN),
     U16_MAX, NumSucc(U16_MAX),
     I32_MAX, NumSucc(I32_MAX), I32_MIN, NumPred(I32_MIN),
     U32_MAX, NumSucc(U32_MAX),
     NumSucc(Pow2(53))}

Texts == {<<>>, <<"a", "b">>, <<"4", "2">>, <<"a", NUL>>}

\* the range of each integer kind (u64 / i64 cut to the modelled numbers)
InRange(k, n) ==
    CASE k = "u8" -> NumLe(Small(0), n) /\ NumLe(n, U8_MAX)
      [] k = "u16" -> NumLe(Small(0), n) /\ NumLe(n, U16_MAX)
      [] k = "u32" -> NumLe(Small(0), n) /\ NumLe(n, U32_MAX)
      [] k = "u64" -> NumLe(Small(0), n)
      [] k = "i8" -> NumLe(I8_MIN, n) /\ NumLe(n, I8_MAX)
      [] k = "i16" -> NumLe(I16_MIN, n) /\ NumLe(n, I16_MAX)
      [] k = "i32" -> NumLe(I32_MIN, n) /\ NumLe(n, I32_MAX)
      [] k = "i64" -> TRUE

TV(ty, val) == [ty |-> ty, val |-> val]

TypedValues ==
    UNION {{TV(Single(k), <<n>>) : n \in {m \in NumVals : InRange(k, m)}} : k \in IntKinds}
    \cup {TV(Single("bool"), <<b>>) : b \in BOOLEAN}
    \cup {TV(Single("string"), <<s>>) : s \in Texts}
    \cup {TV(Hostname, <<s>>) : s \in Texts}
    \cup UNION {{TV(Serial(n), <<b>>) : b \in Buffers(n)} : n \in 1..MaxLen}
    \cup {TV(Items(n), <<ItemsVal(n)>>) : n \in 0..MaxLen}
    \cup {TV(ItemsVec, <<ItemsVal(n)>>) : n \in 0..MaxLen}
    \cup {TV(Config(n), <<Small(1), UsersVal(n)>>) : n \in 0..MaxLen}
    \cup {TV(FullConfig(n), <<Small(1), UsersVal(n), <<Small(3), TRUE>>, Small(120)>>) :
            n \in 0..MaxLen}
    \cup {TV(UsersVec, <<UsersVal(n), Small(1)>>) : n \in 0..MaxLen}
    \cup {TV(Matrix, <<m>>) : m \in {<<>>, <<<<Small(1)>>>>}}
    \cup {TV(Grid, << << <<Small(1)>> >> >>)}
    \cup {TV(Nested, << << <<Small(1)>>, Small(2) >> >>),
          TV(Twice, <<Small(1), Small(2)>>)}
    \cup {TV(ItemsInItems, << <<ItemsVal(n)>> >>) : n \in 0..MaxLen}
    \cup Rootless \cup Reopened
    \cup UNION {UNION {{TV(ListOf(e), <<v>>) : v \in ListVals(e, n)} : n \in 1..MaxLen} :
                  e \in ListKinds}


\* ------------------------------------------------------------- JSON values
\* A tree as a value: what cJSON_PrintUnformatted renders and cJSON_Parse
\* builds.  An Object keeps its members in order and may repeat a key.

JNull == [k |-> "Null"]

JBool(b) == [k |-> "Bool", b |-> b]

JNum(n) == [k |-> "Number", n |-> n]

JStr(s) == [k |-> "String", s |-> s]

JArr(items) == [k |-> "Array", items |-> items]

JObj(members) == [k |-> "Object", members |-> members]

Member(key, val) == [key |-> key, val |-> val]

\* ------------------------------------------------------- cJSON on the heap
\* heap[id] is a node: a container holds kids, a sequence of [key, id] (the
\* key is "" under an Array); rel counts the cJSON_Delete calls that freed it.

Kid(key, id) == [key |-> key, id |-> id]

Alloc(h, node) == [h |-> Append(h, node), r |-> Ok(Len(h) + 1)]

create_object(h) == Alloc(h, [k |-> "Object", kids |-> <<>>, rel |-> 0])

create_array(h) == Alloc(h, [k |-> "Array", kids |-> <<>>, rel |-> 0])

create_number(h, n) == Alloc(h, [k |-> "Number", n |-> n, rel |-> 0])

create_bool(h, b) == Alloc(h, [k |-> "Bool", b |-> b, rel |-> 0])

create_string(h, s) ==
    IF HasNul(s) THEN [h |-> h, r |-> Err("InvalidUtf8")]
    ELSE Alloc(h, [k |-> "String", s |-> s, rel |-> 0])

is_array(h, id) == h[id].k = "Array"

is_object(h, id) == h[id].k = "Object"

IsContainer(h, id) == h[id].k \in {"Array", "Object"}

RECURSIVE Subtree(_, _)
Subtree(h, id) ==
    {id} \cup (IF IsContainer(h, id)
               THEN UNION {Subtree(h, h[id].kids[i].id) : i \in 1..Len(h[id].kids)}
               ELSE {})

\* Drop for CJson: cJSON_Delete frees the node and everything below it
cJSON_Delete(h, id) ==
    LET d == Subtree(h, id)
    IN [i \in 1..Len(h) |-> IF i \in d THEN [h[i] EXCEPT !.rel = @ + 1] ELSE h[i]]

AddKid(h, self, key, item) ==
    [h EXCEPT ![self].kids = Append(@, Kid(key, item))]

\* a variant of add_item_to_array that links the item in front
add_item_in_front(h, self, item) ==
    IF ~is_array(h, self)
    THEN [h |-> cJSON_Delete(h, item), r |-> Err("TypeError")]
    ELSE [h |-> [h EXCEPT ![self].kids = <<Kid("", item)>> \o @], r |-> Ok("unit")]

\* the item is moved in: on the early return it is dropped, on success
\* into_raw hands the node to the parent
add_item_to_array(h, self, item) ==
    IF ~is_array(h, self)
    THEN [h |-> cJSON_Delete(h, item), r |-> Err("TypeError")]
    ELSE [h |-> AddKid(h, self, "", item), r |-> Ok("unit")]

add_item_to_object(h, self, key, item) ==
    IF ~is_object(h, self)
    THEN [h |-> cJSON_Delete(h, item), r |-> Err("TypeError")]
    ELSE [h |-> AddKid(h, self, key, item), r |-> Ok("unit")]

\* cJSON_Add<Kind>ToObject creates the node and appends it under key; it
\* does not look for an older member of that key
AddNew(h, self, key, made) ==
    IF ~made.r.ok THEN made
    ELSE [h |-> AddKid(made.h, self, key, made.r.v), r |-> Ok("unit")]

add_bool_to_object(h, self, key, b) ==
    IF ~is_object(h, self) THEN [h |-> h, r |-> Err("TypeError")]
    ELSE AddNew(h, self, key, create_bool(h, b))

add_number_to_object(h, self, key, n) ==
    IF ~is_object(h, self) THEN [h |-> h, r |-> Err("TypeError")]
    ELSE AddNew(h, self, key, create_number(h, n))

add_string_to_object(h, self, key, s) ==
    IF ~is_object(h, self) THEN [h |-> h, r |-> Err("TypeError")]
    ELSE AddNew(h, self, key, create_string(h, s))

get_array_size(h, id) ==
    IF ~is_array(h, id) THEN Err("TypeError") ELSE Ok(Len(h[id].kids))

\* the tree below a node, as cJSON_PrintUnformatted walks it
RECURSIVE Snapshot(_, _)
Snapshot(h, id) ==
    CASE h[id].k = "Object" ->
            JObj([i \in 1..Len(h[id].kids) |->
                    Member(h[id].kids[i].key, Snapshot(h, h[id].kids[i].id))])
      [] h[id].k = "Array" ->
            JArr([i \in 1..Len(h[id].kids) |-> Snapshot(h, h[id].kids[i].id)])
      [] h[id].k = "Number" -> JNum(h[id].n)
      [] h[id].k = "String" -> JStr(h[id].s)
      [] h[id].k = "Bool" -> JBool(h[id].b)

\* some node below id was already freed
Dangling(h, id) == \E i \in Subtree(h, id) : h[i].rel > 0


\* ---------------------------------------------------------- JsonSerializer
\* A serializer s is [stack, stack_name]: stack is the BTreeMap from name
\* to handle, stack_name the Vec of pushed names.  A handler takes s and the
\* heap h and gives back both with its result r.

Step(s, h, r) == [s |-> s, h |-> h, r |-> r]

Put(f, key, v) == [x \in (DOMAIN f) \cup {key} |-> IF x = key THEN v ELSE f[x]]

Last(q) == q[Len(q)]

Pop(q) == IF q = <<>> THEN q ELSE SubSeq(q, 1, Len(q) - 1)

JsonSerializer_new == [stack |-> <<>>, stack_name |-> <<>>]

\* BTreeMap::insert: a displaced handle is dropped, which deletes its node
stack_insert(s, h, key, id) ==
    [s |-> [s EXCEPT !.stack = Put(@, key, id)],
     h |-> IF key \in DOMAIN s.stack THEN cJSON_Delete(h, s.stack[key]) ELSE h]

\* a variant of get_current_object that falls back to the root entry
current_or_root(s) ==
    IF s.stack_name # <<>> /\ Last(s.stack_name) \in DOMAIN s.stack
    THEN Ok(s.stack[Last(s.stack_name)])
    ELSE IF "" \in DOMAIN s.stack THEN Ok(s.stack[""])
    ELSE Err("InvalidOperation")

\* ser.rs 355-364
get_current_object(s) ==
    IF s.stack_name # <<>> /\ Last(s.stack_name) \in DOMAIN s.stack
    THEN Ok(s.stack[Last(s.stack_name)])
    ELSE Err("InvalidOperation")

serialize_bool(s, h, name, v) ==
    LET c == get_current_object(s)
    IN IF ~c.ok THEN Step(s, h, c)
       ELSE IF is_array(h, c.v)
       THEN LET made == create_bool(h, v)
                added == add_item_to_array(made.h, c.v, made.r.v)
            IN Step(s, added.h, added.r)
       ELSE LET added == add_bool_to_object(h, c.v, name, v)
            IN Step(s, added.h, added.r)

\* the body shared by serialize_u8 .. serialize_i128: the value goes in
\* as v as f64
serialize_int(s, h, name, v) ==
    LET c == get_current_object(s)
    IN IF ~c.ok THEN Step(s, h, c)
       ELSE IF is_array(h, c.v)
       THEN LET made == create_number(h, as_f64(v))
                added == add_item_to_array(made.h, c.v, made.r.v)
            IN Step(s, added.h, added.r)
       ELSE LET added == add_number_to_object(h, c.v, name, as_f64(v))
            IN Step(s, added.h, added.r)

\* the body shared by serialize_string and serialize_str
serialize_string(s, h, name, v) ==
    LET c == get_current_object(s)
    IN IF ~c.ok THEN Step(s, h, c)
       ELSE IF is_array(h, c.v)
       THEN LET made == create_string(h, v)
            IN IF ~made.r.ok THEN Step(s, made.h, made.r)
               ELSE LET added == add_item_to_array(made.h, c.v, made.r.v)
                    IN Step(s, added.h, added.r)
       ELSE LET added == add_string_to_object(h, c.v, name, v)
            IN Step(s, added.h, added.r)

serialize_bytes(s, h, name, v) == serialize_string(s, h, name, hex_string(v))

\* ser.rs 214-222: up to the loop over the items.  The local `array` is
\* dropped on each early return; add_item_to_object has then already
\* dropped the clone it was given.
\* a variant of serialize_vec_enter that appends to an Array on top
vec_enter_appending(s, h, name) ==
    LET made == create_array(h)
        array == made.r.v
        c == get_current_object(s)
    IN IF ~c.ok THEN Step(s, cJSON_Delete(made.h, array), c)
       ELSE LET added == IF is_array(made.h, c.v)
                         THEN add_item_to_array(made.h, c.v, array)
                         ELSE add_item_to_object(made.h, c.v, name, array)
            IN IF ~added.r.ok THEN Step(s, cJSON_Delete(added.h, array), added.r)
               ELSE LET pushed == [s EXCEPT !.stack_name = Append(@, name)]
                        ins == stack_insert(pushed, added.h, name, array)
                    IN Step(ins.s, ins.h, Ok("unit"))

serialize_vec_enter(s, h, name) ==
    LET made == create_array(h)
        array == made.r.v
        c == get_current_object(s)
    IN IF ~c.ok THEN Step(s, cJSON_Delete(made.h, array), c)
       ELSE LET added == add_item_to_object(made.h, c.v, name, array)
            IN IF ~added.r.ok THEN Step(s, cJSON_Delete(added.h, array), added.r)
               ELSE LET pushed == [s EXCEPT !.stack_name = Append(@, name)]
                        ins == stack_insert(pushed, added.h, name, array)
                    IN Step(ins.s, ins.h, Ok("unit"))

\* ser.rs 230-233: after the loop
serialize_vec_exit(s, h) == Step([s EXCEPT !.stack_name = Pop(@)], h, Ok("unit"))

\* ser.rs 239-247
serialize_array_enter(s, h, name) ==
    LET made == create_array(h)
        array == made.r.v
        c == get_current_object(s)
    IN IF ~c.ok THEN Step(s, cJSON_Delete(made.h, array), c)
       ELSE LET added == add_item_to_object(made.h, c.v, name, array)
            IN IF ~added.r.ok THEN Step(s, cJSON_Delete(added.h, array), added.r)
               ELSE LET pushed == [s EXCEPT !.stack_name = Append(@, name)]
                        ins == stack_insert(pushed, added.h, name, array)
                    IN Step(ins.s, ins.h, Ok("unit"))

\* ser.rs 255-258
serialize_array_exit(s, h) == Step([s EXCEPT !.stack_name = Pop(@)], h, Ok("unit"))

\* format!("{}[{}]", last_name, index)
unique_key(last_name, index) == last_name \o "[" \o ToString(index) \o "]"

\* a variant of struct_start_in_array that attaches the element to the root
\* Object under the array's name instead of appending it to the Array
struct_start_under_name(s, h, container) ==
    LET made == create_object(h)
        obj == made.r.v
        added == add_item_to_object(made.h, s.stack[""], Last(s.stack_name), obj)
        key == unique_key(Last(s.stack_name), Len(added.h[container].kids))
        pushed == [s EXCEPT !.stack_name = Append(@, key)]
        ins == stack_insert(pushed, added.h, key, obj)
    IN Step(ins.s, ins.h, Ok("unit"))

\* ser.rs 265-279: an element of an array of structs
struct_start_in_array(s, h, container) ==
    LET made == create_object(h)
        obj == made.r.v
        added == add_item_to_array(made.h, container, obj)
        key == unique_key(Last(s.stack_name), Len(added.h[container].kids) - 1)
        pushed == [s EXCEPT !.stack_name = Append(@, key)]
        ins == stack_insert(pushed, added.h, key, obj)
    IN Step(ins.s, ins.h, Ok("unit"))

\* ser.rs 281-285: the root object
struct_start_root(s, h) ==
    LET pushed == [s EXCEPT !.stack_name = Append(@, "")]
        made == create_object(h)
        ins == stack_insert(pushed, made.h, "", made.r.v)
    IN Step(ins.s, ins.h, Ok("unit"))

\* ser.rs 286-306: a named struct under the container on top
struct_start_named(s, h, name) ==
    IF Len(s.stack_name) < 1 THEN Step(s, h, Err("InvalidOperation"))
    ELSE IF Last(s.stack_name) \notin DOMAIN s.stack
    THEN Step(s, h, Err("InvalidOperation"))
    ELSE LET made == create_object(h)
             obj == made.r.v
             added == add_item_to_object(made.h, s.stack[Last(s.stack_name)], name, obj)
         IN IF ~added.r.ok THEN Step(s, cJSON_Delete(added.h, obj), added.r)
            ELSE LET pushed == [s EXCEPT !.stack_name = Append(@, name)]
                     ins == stack_insert(pushed, added.h, name, obj)
                 IN Step(ins.s, ins.h, Ok("unit"))

serialize_struct_start(s, h, name) ==
    IF name = ""
    THEN IF /\ s.stack_name # <<>>
            /\ Last(s.stack_name) \in DOMAIN s.stack
            /\ is_array(h, s.stack[Last(s.stack_name)])
         THEN struct_start_in_array(s, h, s.stack[Last(s.stack_name)])
         ELSE struct_start_root(s, h)
    ELSE struct_start_named(s, h, name)

\* a variant of serialize_struct_end that refuses to pop the last name
struct_end_guarded(s, h) ==
    IF Len(s.stack_name) <= 1 THEN Step(s, h, Err("InvalidOperation"))
    ELSE Step([s EXCEPT !.stack_name = Pop(@)], h, Ok("unit"))

\* ser.rs 309-314: Vec::pop on stack_name; the map keeps its entry
serialize_struct_end(s, h) == Step([s EXCEPT !.stack_name = Pop(@)], h, Ok("unit"))

\* BTreeMap::first_entry: the least key; "" is below every other name and
\* is the first key a serializer ever inserts
first_entry(stack) ==
    IF "" \in DOMAIN stack THEN "" ELSE CHOOSE key \in DOMAIN stack : TRUE

\* ser.rs 344-353: render the first entry's node, then obj.drop()
print_unformatted(s, h) ==
    IF DOMAIN s.stack = {} THEN Step(s, h, Err("NotFound"))
    ELSE LET obj == s.stack[first_entry(s.stack)]
         IN Step(s, cJSON_Delete(h, obj), Ok(Snapshot(h, obj)))

\* the serializer goes out of scope: every handle of the map is dropped
RECURSIVE DeleteAll(_, _, _)
DeleteAll(h, stack, keys) ==
    IF keys = {} THEN h
    ELSE LET key == CHOOSE x \in keys : TRUE
         IN DeleteAll(cJSON_Delete(h, stack[key]), stack, keys \ {key})

drop_serializer(s, h) == DeleteAll(h, s.stack, DOMAIN s.stack)


\* -------------------------------------------------------- JsonDeserializer
\* A deserializer d is [stack, stack_name, rel].  A stack entry is a deep
\* copy: [id, tree], the tree value and the id of its allocation; rel[id]
\* counts how often that allocation was dropped.  A CJsonRef is [id, node]:
\* the node it points at and the allocation that has to stay alive for it.

Entry(id, tree) == [id |-> id, tree |-> tree]

Ref(id, node) == [id |-> id, node |-> node]

DStep(d, r) == [d |-> d, r |-> r]

\* the null pointer
NullPtr == [k |-> "NULL"]

\* cJSON_Parse: no tree for malformed text
cJSON_Parse(text) == IF text.wf THEN text.tree ELSE NullPtr

\* CJson::from_ptr
from_ptr(ptr) == IF ptr = NullPtr THEN Err("NullPointer") ELSE Ok(ptr)

\* CJson::parse (the text holds no interior zero byte)
CJson_parse(text) == from_ptr(cJSON_Parse(text))

JsonDeserializer_parse(text) ==
    LET parsed == CJson_parse(text)
    IN IF ~parsed.ok THEN parsed
       ELSE Ok([stack |-> Put(<<>>, "", Entry(1, parsed.v)),
                stack_name |-> <<"">>,
                rel |-> <<0>>])

\* cJSON_GetObjectItem compares keys without regard to case
to_lower(key) ==
    IF key = "VERSION" THEN "version" ELSE IF key = "NODE" THEN "node" ELSE key

KeyEq(a, b) == to_lower(a) = to_lower(b)

HasKey(tree, key) == \E i \in 1..Len(tree.members) : KeyEq(tree.members[i].key, key)

get_object_item(tree, key) ==
    IF tree.k # "Object" THEN Err("TypeError")
    ELSE IF ~HasKey(tree, key) THEN Err("NotFound")
    ELSE LET first == CHOOSE i \in 1..Len(tree.members) :
                          /\ KeyEq(tree.members[i].key, key)
                          /\ \A j \in 1..(i - 1) : ~KeyEq(tree.members[j].key, key)
         IN Ok(tree.members[first].val)

get_array_item(tree, index) ==
    IF tree.k # "Array" THEN Err("TypeError")
    ELSE IF index >= Len(tree.items) THEN Err("NotFound")
    ELSE Ok(tree.items[index + 1])

get_bool_value(node) == IF node.k # "Bool" THEN Err("TypeError") ELSE Ok(node.b)

get_number_value(node) == IF node.k # "Number" THEN Err("TypeError") ELSE Ok(node.n)

get_string_value(node) == IF node.k # "String" THEN Err("TypeError") ELSE Ok(node.s)

\* de.rs 279-298
get_item(d, name) ==
    IF d.stack_name = <<>> THEN Err("InvalidOperation")
    ELSE IF Last(d.stack_name) \notin DOMAIN d.stack THEN Err("InvalidOperation")
    ELSE LET container == d.stack[Last(d.stack_name)]
         IN IF name = "" THEN Ok(Ref(container.id, container.tree))
            ELSE LET item == get_object_item(container.tree, name)
                 IN IF item.ok THEN Ok(Ref(container.id, item.v)) ELSE item

deserialize_bool(d, name) ==
    LET item == get_item(d, name)
    IN IF ~item.ok THEN DStep(d, item) ELSE DStep(d, get_bool_value(item.v.node))

deserialize_u64(d, name) ==
    LET item == get_item(d, name)
        n == get_number_value(item.v.node)
    IN IF ~item.ok THEN DStep(d, item)
       ELSE IF ~n.ok THEN DStep(d, n)
       ELSE IF IsNeg(n.v) THEN DStep(d, Err("TypeError"))
       ELSE DStep(d, Ok(as_u64(n.v)))

deserialize_i64(d, name) ==
    LET item == get_item(d, name)
        n == get_number_value(item.v.node)
    IN IF ~item.ok THEN DStep(d, item)
       ELSE IF ~n.ok THEN DStep(d, n)
       ELSE DStep(d, Ok(as_i64(n.v)))

\* a variant of narrow_unsigned that hands the wide value on unchecked
unchecked_unsigned(d, name, max) == deserialize_u64(d, name)

\* the body shared by deserialize_u8 / u16 / u32
narrow_unsigned(d, name, max) ==
    LET v == deserialize_u64(d, name)
    IN IF ~v.r.ok THEN v
       ELSE IF NumLe(v.r.v, max) THEN v ELSE DStep(v.d, Err("TypeError"))

\* the body shared by deserialize_i8 / i16 / i32
narrow_signed(d, name, min, max) ==
    LET v == deserialize_i64(d, name)
    IN IF ~v.r.ok THEN v
       ELSE IF NumLe(min, v.r.v) /\ NumLe(v.r.v, max) THEN v
       ELSE DStep(v.d, Err("TypeError"))

deserialize_u8(d, name) == narrow_unsigned(d, name, U8_MAX)

deserialize_i8(d, name) == narrow_signed(d, name, I8_MIN, I8_MAX)

deserialize_u16(d, name) == narrow_unsigned(d, name, U16_MAX)

deserialize_i16(d, name) == narrow_signed(d, name, I16_MIN, I16_MAX)

deserialize_u32(d, name) == narrow_unsigned(d, name, U32_MAX)

deserialize_i32(d, name) == narrow_signed(d, name, I32_MIN, I32_MAX)


\* hex_to_bytes_into_slice of osal_rs::utils, as de.rs 130 calls it: two
\* digits a byte; it refuses an odd length and a buffer that is too short
hex_to_bytes_into_slice(s, buffer) ==
    LET count == Len(s) \div 2
    IN IF Len(s) % 2 # 0 \/ count > Len(buffer) \/ \E i \in 1..Len(s) : ~is_ascii_hexdigit(s[i])
       THEN Err("StringConversionError")
       ELSE Ok([count |-> count,
                buffer |-> [i \in 1..Len(buffer) |->
                              IF i <= count
                              THEN 16 * hex_value(s[2 * i - 1]) + hex_value(s[2 * i])
                              ELSE buffer[i]]])

\* the byte of a character (str::as_bytes), for the characters of the model
as_byte(c) ==
    IF \E i \in 1..10 : HexDigits[i] = c THEN 48 + hex_value(c)
    ELSE IF \E i \in 11..16 : HexDigits[i] = c THEN 87 + hex_value(c)
    ELSE IF \E i \in 1..6 : UpperHex[i] = c THEN 55 + hex_value(c)
    ELSE IF c = "g" THEN 103 ELSE IF c = "-" THEN 45 ELSE 122

Min(a, b) == IF a < b THEN a ELSE b

\* de.rs 138-142
copy_utf8(s, buffer) ==
    LET copy_len == Min(Len(s), Len(buffer))
    IN Ok([count |-> copy_len,
           buffer |-> [i \in 1..Len(buffer) |->
                         IF i <= copy_len THEN as_byte(s[i]) ELSE buffer[i]]])

\* valueint as i32 as u8 of a Number node: cJSON saturates valueint at the
\* i32 limits, the cast to u8 keeps the low byte
int_as_u8(n) ==
    IF NumLe(I32_MAX, n) THEN 255
    ELSE IF NumLe(n, I32_MIN) THEN 0
    ELSE n[2] % 256

\* de.rs 146-155
copy_array(items, buffer) ==
    LET copy_len == Min(Len(items), Len(buffer))
    IN IF \E i \in 1..copy_len : items[i].k # "Number" THEN Err("TypeError")
       ELSE Ok([count |-> copy_len,
                buffer |-> [i \in 1..Len(buffer) |->
                              IF i <= copy_len THEN int_as_u8(items[i].n) ELSE buffer[i]]])

deserialize_bytes(d, name, buffer) ==
    LET item == get_item(d, name)
        node == item.v.node
        s == node.s
        is_hex == Len(s) % 2 = 0 /\ Len(s) > 0 /\ \A i \in 1..Len(s) : is_ascii_hexdigit(s[i])
        decoded == hex_to_bytes_into_slice(s, buffer)
    IN IF ~item.ok THEN DStep(d, item)
       ELSE IF node.k = "String"
       THEN IF is_hex /\ decoded.ok THEN DStep(d, decoded) ELSE DStep(d, copy_utf8(s, buffer))
       ELSE IF node.k = "Array" THEN DStep(d, copy_array(node.items, buffer))
       ELSE DStep(d, Err("TypeError"))

\* n / 10 and n % 10 of a number that is not negative
Div10(n) == <<n[1] \div 10, ((n[1] % 10) * Base + n[2]) \div 10>>

Mod10(n) == ((n[1] % 10) * Base + n[2]) % 10

RECURSIVE Digits(_)
Digits(n) ==
    IF n = <<0, 0>> THEN <<>> ELSE Append(Digits(Div10(n)), HexDigits[Mod10(n) + 1])

\* write!(.., "{}", n) of an integral f64
display_f64(n) ==
    IF n = <<0, 0>> THEN <<"0">>
    ELSE IF IsNeg(n) THEN <<"-">> \o Digits(NumNeg(n)) ELSE Digits(n)

\* a variant of deserialize_string that also renders a Bool node
string_of_any_scalar(d, name) ==
    LET item == get_item(d, name)
        node == item.v.node
    IN IF ~item.ok THEN DStep(d, item)
       ELSE IF node.k = "String" THEN DStep(d, get_string_value(node))
       ELSE IF node.k = "Number" THEN DStep(d, Ok(display_f64(node.n)))
       ELSE IF node.k = "Bool"
       THEN DStep(d, Ok(IF node.b THEN <<"t", "r", "u", "e">> ELSE <<"f", "a", "l", "s", "e">>))
       ELSE DStep(d, Err("TypeError"))

\* de.rs 160-172
deserialize_string(d, name) ==
    LET item == get_item(d, name)
        node == item.v.node
    IN IF ~item.ok THEN DStep(d, item)
       ELSE IF node.k = "String" THEN DStep(d, get_string_value(node))
       ELSE IF node.k = "Number" THEN DStep(d, Ok(display_f64(node.n)))
       ELSE DStep(d, Err("TypeError"))


\* cJSON_Duplicate(node, 1) wrapped by CJson::from_ptr: a deep copy in a
\* fresh allocation
duplicate(d, node) ==
    [d |-> [d EXCEPT !.rel = Append(@, 0)], entry |-> Entry(Len(d.rel) + 1, node)]

\* the CJson of an entry is dropped
release(d, entry) == [d EXCEPT !.rel[entry.id] = @ + 1]

\* BTreeMap::insert: a displaced entry is dropped
de_insert(d, key, entry) ==
    LET kept == IF key \in DOMAIN d.stack THEN release(d, d.stack[key]) ELSE d
    IN [kept EXCEPT !.stack = Put(@, key, entry)]

\* BTreeMap::remove
de_remove(d, key) ==
    IF key \notin DOMAIN d.stack THEN d
    ELSE [release(d, d.stack[key]) EXCEPT
            !.stack = [x \in (DOMAIN d.stack) \ {key} |-> d.stack[x]]]

deserialize_struct_start(d, name) ==
    IF name = "" THEN DStep(d, Ok("unit"))
    ELSE IF d.stack_name = <<>> THEN DStep(d, Err("InvalidOperation"))
    ELSE IF Last(d.stack_name) \notin DOMAIN d.stack THEN DStep(d, Err("InvalidOperation"))
    ELSE LET item_ref == get_object_item(d.stack[Last(d.stack_name)].tree, name)
             dup == duplicate(d, item_ref.v)
             pushed == [dup.d EXCEPT !.stack_name = Append(@, name)]
         IN IF ~item_ref.ok THEN DStep(d, item_ref)
            ELSE DStep(de_insert(pushed, name, dup.entry), Ok("unit"))

\* a variant of deserialize_struct_end that pops whatever is on top
struct_end_popping(d) ==
    IF Len(d.stack_name) > 0
    THEN DStep(de_remove([d EXCEPT !.stack_name = Pop(@)], Last(d.stack_name)), Ok("unit"))
    ELSE DStep(d, Ok("unit"))

deserialize_struct_end(d) ==
    IF Len(d.stack_name) > 1
    THEN DStep(de_remove([d EXCEPT !.stack_name = Pop(@)], Last(d.stack_name)), Ok("unit"))
    ELSE DStep(d, Ok("unit"))

\* [name, "[", idx_s, "]"].concat()
element_key(name, i) == name \o "[" \o ToString(i) \o "]"

\* a variant of deserialize_vec_enter that pushes the Array itself as a
\* context before the loop
deserialize_vec_enter_pushing(d, name) ==
    LET item == get_item(d, name)
        dup == duplicate(d, item.v.node)
        pushed == [dup.d EXCEPT !.stack_name = Append(@, name)]
    IN IF ~item.ok THEN DStep(d, item)
       ELSE IF item.v.node.k # "Array" THEN DStep(d, Err("TypeError"))
       ELSE DStep(de_insert(pushed, name, dup.entry),
                  Ok([item |-> item.v, size |-> Len(item.v.node.items)]))

\* de.rs 177-183: up to the loop; the result holds the borrowed `item`
deserialize_vec_enter(d, name) ==
    LET item == get_item(d, name)
    IN IF ~item.ok THEN DStep(d, item)
       ELSE IF item.v.node.k # "Array" THEN DStep(d, Err("TypeError"))
       ELSE DStep(d, Ok([item |-> item.v, size |-> Len(item.v.node.items)]))

\* the process stops (a panic, or a fault on freed memory): nothing returns
Fault == Err("fault")

\* `item` points into an allocation that was freed
Stale(d, item) == d.rel[item.id] > 0

\* what a read through a stale `item` can give: the old bytes, any other
\* bytes (not an Array, or no such element), or a fault
StaleReads == {"intact", "TypeError", "NotFound", "fault"}

\* de.rs 186-194: element i is looked up through `item`, copied and pushed
\* as the current context
deserialize_vec_push(d, name, item, i, read) ==
    LET elem_ref == get_array_item(item.node, i)
        dup == duplicate(d, elem_ref.v)
        key == element_key(name, i)
        pushed == [dup.d EXCEPT !.stack_name = Append(@, key)]
    IN IF Stale(d, item) /\ read = "fault" THEN DStep(d, Fault)
       ELSE IF Stale(d, item) /\ read # "intact" THEN DStep(d, Err(read))
       ELSE IF ~elem_ref.ok THEN DStep(d, elem_ref)
       ELSE DStep(de_insert(pushed, key, dup.entry), Ok("unit"))

\* de.rs 200-202: the element context is popped; unwrap panics on an empty
\* stack_name
deserialize_vec_pop(d) ==
    IF d.stack_name = <<>> THEN DStep(d, Fault)
    ELSE DStep(de_remove([d EXCEPT !.stack_name = Pop(@)], Last(d.stack_name)), Ok("unit"))

\* de.rs 212-214: the length of the Vec against N
deserialize_array_check(len, N) ==
    IF len # N THEN Err("InvalidOperation") ELSE Ok("unit")

RECURSIVE ReleaseAll(_, _)
ReleaseAll(d, keys) ==
    IF keys = {} THEN d
    ELSE LET key == CHOOSE x \in keys : TRUE
         IN ReleaseAll(release(d, d.stack[key]), keys \ {key})

\* JsonDeserializer::drop: the first entry's drop(), then clear() drops
\* every entry of the map
deserializer_drop(d) ==
    LET first == IF DOMAIN d.stack = {} THEN d
                 ELSE release(d, d.stack[first_entry(d.stack)])
    IN [ReleaseAll(first, DOMAIN d.stack) EXCEPT !.stack = <<>>, !.stack_name = <<>>]


\* ------------------------------------------------------------------ inputs
\* A run is one round trip of the tests: to_json of a typed value, then
\* from_json of the text into a destination type; or from_json alone of a
\* text written by hand.  A text is well formed (wf) with its tree, or not.

Text(tree) == [wf |-> TRUE, tree |-> tree]

Malformed == [wf |-> FALSE]

\* the destination types a value is read back into: its own type, and for
\* the shapes below a type of another kind, name or length
Dests(tv) ==
    {tv.ty}
    \cup (IF \E k \in {"i64", "u64", "string", "bool"} : tv.ty = Single(k)
          THEN {Single(k) : k \in IntKinds \cup {"bool", "string"}} \cup {Hostname}
          ELSE {})
    \cup (IF \E n \in 0..MaxLen : tv.ty = Items(n)
          THEN {Items(n) : n \in 0..MaxLen} \cup {ItemsVec}
          ELSE {})
    \cup (IF \E n \in 0..MaxLen : tv.ty = Config(n)
          THEN {Config(n) : n \in 0..MaxLen}
          ELSE {})
    \cup (IF \E n \in 1..MaxLen : tv.ty = Serial(n)
          THEN {Serial(n) : n \in 0..(MaxLen + 1)}
          ELSE {})

HandTexts ==
    {Malformed,
     Text(JObj(<<Member("VERSION", JNum(Small(7)))>>)),
     Text(JObj(<<Member("version", JNull)>>)),
     Text(JObj(<<Member("version", JNum(Small(1))), Member("version", JNum(Small(2)))>>)),
     Text(JObj(<<Member("serial", JStr(<<"a", "g">>))>>)),
     Text(JObj(<<Member("serial", JArr(<<JNum(Small(1)), JNum(Small(300))>>))>>)),
     Text(JObj(<<Member("items", JArr(<<JArr(<<JNum(Small(1))>>)>>))>>)),
     Text(JArr(<<JNum(Small(1))>>)),
     Text(JObj(<<Member("serial", JStr(<<>>))>>)),
     Text(JObj(<<Member("serial", JStr(<<"a", "b", "c">>))>>)),
     Text(JObj(<<Member("serial", JStr(<<"A", "B", "0", "1">>))>>)),
     Text(JObj(<<Member("serial", JStr(<<"z", "-", "g">>))>>)),
     Text(JObj(<<Member("version", JBool(TRUE))>>)),
     Text(JObj(<<Member("version", JArr(<<JNum(Small(1))>>))>>)),
     Text(JObj(<<Member("version", JObj(<<Member("version", JNum(Small(1)))>>))>>)),
     Text(JObj(<<Member("list", JArr(<<JNum(Small(1))>>))>>)),
     Text(JObj(<<Member("NODE", JObj(<<Member("w", JNum(Small(2)))>>))>>)),
     Text(JObj(<<Member("node", JObj(<<Member("node", JObj(<<Member("v", JNum(Small(1)))>>)),
                                      Member("w", JNum(Small(2)))>>))>>))}

HandDests ==
    {Single("u8"), Single("string"), Serial(1), Serial(MaxLen), Matrix, ItemsVec,
     Nested, ListOf(Named("elem", UserConfig))}

Cases ==
    UNION {{[mode |-> "value", src |-> tv, dst |-> ty] : ty \in Dests(tv)} : tv \in TypedValues}
    \cup {[mode |-> "text", text |-> t, dst |-> ty] : t \in HandTexts, ty \in HandDests}


\* ------------------------------------------------------------------- state

VARIABLES
    input,      \* the case of this run
    phase,      \* "ser", "text", "de", "done", or "aborted" after a fault
    s,          \* the JsonSerializer of to_json
    heap,       \* the cJSON nodes the serializer made
    work,       \* the calls the running visit still has to make
    json,       \* what to_json returned, or the text written by hand
    d,          \* the JsonDeserializer of from_json
    out,        \* the values read so far, in read order
    result,     \* what from_json returned
    last,       \* the last handler call: op, name, result, context before
    failed,     \* the first failure of the running pass
    calls       \* handler calls of the running pass

vars == <<input, phase, s, heap, work, json, d, out, result, last, failed, calls>>

Pending == Err("pending")

NoFailure == Ok("none")

NoDeserializer == [stack |-> <<>>, stack_name |-> <<>>, rel |-> <<>>]

Context(c) == [stack |-> c.stack, stack_name |-> c.stack_name]

Call(op, name, r, before) == [op |-> op, name |-> name, r |-> r, before |-> before]

\* the visit of a value or of a destination type, and the later halves of
\* the handlers that call back into a visit
Visit(name, ty, val) == [op |-> "visit", name |-> name, ty |-> ty, val |-> val]

DVisit(name, ty) == [op |-> "visit", name |-> name, ty |-> ty]

Then(op) == [op |-> op]

\* value.serialize(name, serializer) / T::deserialize(deserializer, name):
\* a hand-written impl may pass a name of its own
VisitOf(name, ty, val) ==
    IF ty.t = "named" THEN Visit(ty.own, ty.inner, val) ELSE Visit(name, ty, val)

DVisitOf(name, ty) == IF ty.t = "named" THEN DVisit(ty.own, ty.inner) ELSE DVisit(name, ty)

\* what to_json / from_json call at the root
RootVisits(ty, val) ==
    IF ty.t = "script" THEN [i \in 1..Len(ty.parts) |-> VisitOf("", ty.parts[i], val[i])]
    ELSE <<VisitOf("", ty, val)>>

RootReads(ty) ==
    IF ty.t = "script" THEN [i \in 1..Len(ty.parts) |-> DVisitOf("", ty.parts[i])]
    ELSE <<DVisitOf("", ty)>>

\* a derived record visits its fields in declaration order
FieldVisits(fields, vals) ==
    [i \in 1..Len(fields) |-> VisitOf(fields[i].name, fields[i].ty, vals[i])]

FieldReads(fields) == [i \in 1..Len(fields) |-> DVisitOf(fields[i].name, fields[i].ty)]

\* ser.rs 225-228 / 250-253: item.serialize("", self) for each item
ItemVisits(elem, vals) == [i \in 1..Len(vals) |-> VisitOf("", elem, vals[i])]

\* de.rs 185-203: per element the push, T::deserialize(self, ""), the pop
ElementReads(name, elem, item, size) ==
    [j \in 1..(3 * size) |->
        CASE j % 3 = 1 -> [op |-> "push", name |-> name, item |-> item, i |-> (j - 1) \div 3]
          [] j % 3 = 2 -> DVisitOf("", elem)
          [] OTHER -> Then("pop")]

Leaf(k, v) == [k |-> k, v |-> v]

\* the reads a value gives back when it is read as its own type
RECURSIVE Flatten(_, _)
RECURSIVE FlattenAll(_, _, _)
Flatten(ty, val) ==
    CASE ty.t = "struct" -> FlattenAll([i \in 1..Len(val) |-> ty.fields[i].ty], val, 1)
      [] ty.t \in {"array", "vec"} ->
            Append(FlattenAll([i \in 1..Len(val) |-> ty.elem], val, 1), Leaf("len", Len(val)))
      [] ty.t = "named" -> Flatten(ty.inner, val)
      [] ty.t = "script" -> FlattenAll(ty.parts, val, 1)
      [] ty.t = "bytes" -> <<Leaf("bytes", [count |-> Len(val), buffer |-> val])>>
      [] ty.t = "bool" -> <<Leaf("bool", val)>>
      [] ty.t = "string" -> <<Leaf("string", val)>>
      [] OTHER -> <<Leaf("num", val)>>

FlattenAll(tys, vals, i) ==
    IF i > Len(vals) THEN <<>>
    ELSE Flatten(tys[i], vals[i]) \o FlattenAll(tys, vals, i + 1)

Init ==
    /\ input \in Cases
    /\ phase = IF input.mode = "value" THEN "ser" ELSE "text"
    /\ s = JsonSerializer_new
    /\ heap = <<>>
    /\ work = IF input.mode = "value" THEN RootVisits(input.src.ty, input.src.val) ELSE <<>>
    /\ json = IF input.mode = "value" THEN Pending ELSE Ok(input.text)
    /\ d = NoDeserializer
    /\ out = <<>>
    /\ result = Pending
    /\ last = Call("new", "", Ok("unit"), Context(JsonSerializer_new))
    /\ failed = NoFailure
    /\ calls = 0


\* ------------------------------------------------------- to_json, stepwise
\* A handler runs on the head of `work`.  Its error leaves through the `?`
\* of every caller up to to_json: nothing of the visit is left to run.

Serializing == phase = "ser" /\ failed.ok /\ work # <<>>

Visiting(kinds) == Head(work).op = "visit" /\ Head(work).ty.t \in kinds

\* the container on top was freed while its handle stayed on the stack
SerStale ==
    /\ get_current_object(s).ok
    /\ heap[get_current_object(s).v].rel > 0

\* what a handler that reads its container can do on a freed one: find the
\* old bytes, find other bytes (a node of no container kind), or fault
SerStaleReads == {"intact", "TypeError", "fault"}

SerReturn(step, op, more) ==
    \E read \in SerStaleReads :
        LET r == IF read = "TypeError" THEN Err("TypeError") ELSE step.r
        IN /\ read # "intact" => (SerStale /\ Head(work).op = "visit")
           /\ IF read = "fault"
              THEN /\ phase' = "aborted"
                   /\ UNCHANGED <<s, heap, last, calls, work, failed>>
              ELSE /\ s' = IF read = "intact" THEN step.s ELSE s
                   /\ heap' = IF read = "intact" THEN step.h ELSE heap
                   /\ last' = Call(op, IF Head(work).op = "visit" THEN Head(work).name ELSE "",
                                   r, Context(s))
                   /\ calls' = calls + 1
                   /\ work' = IF r.ok THEN more \o Tail(work) ELSE <<>>
                   /\ failed' = IF r.ok THEN failed ELSE r
                   /\ UNCHANGED phase
           /\ UNCHANGED <<input, json, d, out, result>>

\* the frame of serialize_vec / serialize_array while its items are visited:
\* what it was called with and on, and the half of it still to run
Frame(op) ==
    LET c == get_current_object(s)
    IN [op |-> op, name |-> Head(work).name, ty |-> Head(work).ty, items |-> Head(work).val,
        before |-> Context(s),
        parent |-> IF c.ok THEN c.v ELSE 0,
        kids |-> IF c.ok /\ IsContainer(heap, c.v) THEN heap[c.v].kids ELSE <<>>]

SerializeBool ==
    /\ Serializing /\ Visiting({"bool"})
    /\ SerReturn(serialize_bool(s, heap, Head(work).name, Head(work).val), "serialize_bool", <<>>)

SerializeInt(k) ==
    /\ Serializing /\ Visiting({k})
    /\ SerReturn(serialize_int(s, heap, Head(work).name, Head(work).val), "serialize_" \o k, <<>>)

SerializeString ==
    /\ Serializing /\ Visiting({"string"})
    /\ SerReturn(serialize_string(s, heap, Head(work).name, Head(work).val),
                 "serialize_string", <<>>)

SerializeBytes ==
    /\ Serializing /\ Visiting({"bytes"})
    /\ SerReturn(serialize_bytes(s, heap, Head(work).name, Head(work).val),
                 "serialize_bytes", <<>>)

\* the frame of a derived record's visit while its fields are visited: the
\* name it was opened under, the container that was current then, and the
\* serialize_struct_end still to call
StructFrame ==
    LET c == get_current_object(s)
    IN [op |-> "struct_end", name |-> Head(work).name, parent |-> IF c.ok THEN c.v ELSE 0]

SerializeStructStart ==
    /\ Serializing /\ Visiting({"struct"})
    /\ SerReturn(serialize_struct_start(s, heap, Head(work).name), "serialize_struct_start",
                 Append(FieldVisits(Head(work).ty.fields, Head(work).val), StructFrame))

SerializeStructEnd ==
    /\ Serializing /\ Head(work).op = "struct_end"
    /\ SerReturn(serialize_struct_end(s, heap), "serialize_struct_end", <<>>)

SerializeVec ==
    /\ Serializing /\ Visiting({"vec"})
    /\ SerReturn(serialize_vec_enter(s, heap, Head(work).name), "serialize_vec",
                 Append(ItemVisits(Head(work).ty.elem, Head(work).val), Frame("vec_exit")))

SerializeVecReturn ==
    /\ Serializing /\ Head(work).op = "vec_exit"
    /\ SerReturn(serialize_vec_exit(s, heap), "serialize_vec_return", <<>>)

SerializeArray ==
    /\ Serializing /\ Visiting({"array"})
    /\ SerReturn(serialize_array_enter(s, heap, Head(work).name), "serialize_array",
                 Append(ItemVisits(Head(work).ty.elem, Head(work).val), Frame("array_exit")))

SerializeArrayReturn ==
    /\ Serializing /\ Head(work).op = "array_exit"
    /\ SerReturn(serialize_array_exit(s, heap), "serialize_array_return", <<>>)

\* lib.rs 102-105: the visit failed; whatever the error, InvalidData goes
\* back and the serializer is dropped
ToJsonErr ==
    /\ phase = "ser" /\ ~failed.ok
    /\ json' = Err("InvalidData")
    /\ heap' = drop_serializer(s, heap)
    /\ phase' = "done"
    /\ UNCHANGED <<input, s, work, d, out, result, last, failed, calls>>

\* lib.rs 107-112: the visit is through; the text is printed and the
\* serializer is dropped.  Printing a tree with a freed node reads freed
\* memory: the old bytes, or a fault.
ToJsonOk ==
    /\ phase = "ser" /\ failed.ok /\ work = <<>>
    /\ LET step == print_unformatted(s, heap)
           stale == DOMAIN s.stack # {} /\ Dangling(heap, s.stack[first_entry(s.stack)])
       IN \E read \in {"intact", "fault"} :
            /\ read = "fault" => stale
            /\ heap' = drop_serializer(step.s, step.h)
            /\ last' = Call("print_unformatted", "", step.r, Context(s))
            /\ IF read = "fault"
               THEN /\ phase' = "aborted"
                    /\ UNCHANGED <<json, failed>>
               ELSE IF step.r.ok
               THEN /\ phase' = "text"
                    /\ json' = Ok(Text(step.r.v))
                    /\ UNCHANGED failed
               ELSE /\ phase' = "done"
                    /\ json' = Err("InvalidData")
                    /\ failed' = step.r
    /\ UNCHANGED <<input, s, work, d, out, result, calls>>


\* ----------------------------------------------------- from_json, stepwise
\* from_json parses the text, seeds a deserializer, runs the destination
\* type's visit with the root name "" and tears the deserializer down.

\* JsonDeserializer::parse, called by from_json
Parse ==
    /\ phase = "text" /\ json.ok
    /\ LET r == JsonDeserializer_parse(json.v)
       IN /\ last' = Call("parse", "", IF r.ok THEN Ok("unit") ELSE r, Context(d))
          /\ calls' = 1
          /\ IF r.ok
             THEN /\ d' = r.v
                  /\ work' = RootReads(input.dst)
                  /\ phase' = "de"
                  /\ UNCHANGED <<failed, result>>
             ELSE /\ failed' = r
                  /\ result' = r
                  /\ phase' = "done"
                  /\ UNCHANGED <<d, work>>
    /\ UNCHANGED <<input, s, heap, json, out>>

Deserializing == phase = "de" /\ failed.ok /\ work # <<>>

DeReturn(step, op, more, read) ==
    /\ d' = step.d
    /\ last' = Call(op, IF Head(work).op \in {"visit", "push"} THEN Head(work).name ELSE "",
                    step.r, Context(d))
    /\ calls' = calls + 1
    /\ work' = IF step.r.ok THEN more \o Tail(work) ELSE <<>>
    /\ out' = IF step.r.ok THEN out \o read ELSE out
    /\ failed' = IF step.r.ok \/ step.r = Fault THEN failed ELSE step.r
    /\ phase' = IF step.r = Fault THEN "aborted" ELSE phase
    /\ UNCHANGED <<input, s, heap, json, result>>

DeserializeBool ==
    /\ Deserializing /\ Visiting({"bool"})
    /\ LET step == deserialize_bool(d, Head(work).name)
       IN DeReturn(step, "deserialize_bool", <<>>, <<Leaf("bool", step.r.v)>>)

\* the handler of each integer kind
deserialize_int(k, dd, name) ==
    CASE k = "u8" -> deserialize_u8(dd, name)
      [] k = "i8" -> deserialize_i8(dd, name)
      [] k = "u16" -> deserialize_u16(dd, name)
      [] k = "i16" -> deserialize_i16(dd, name)
      [] k = "u32" -> deserialize_u32(dd, name)
      [] k = "i32" -> deserialize_i32(dd, name)
      [] k = "u64" -> deserialize_u64(dd, name)
      [] k = "i64" -> deserialize_i64(dd, name)

DeserializeInt(k) ==
    /\ Deserializing /\ Visiting({k})
    /\ LET step == deserialize_int(k, d, Head(work).name)
       IN DeReturn(step, "deserialize_" \o k, <<>>, <<Leaf("num", step.r.v)>>)

DeserializeString ==
    /\ Deserializing /\ Visiting({"string"})
    /\ LET step == deserialize_string(d, Head(work).name)
       IN DeReturn(step, "deserialize_string", <<>>, <<Leaf("string", step.r.v)>>)

\* the destination buffer starts as [0u8; N]
DeserializeBytes ==
    /\ Deserializing /\ Visiting({"bytes"})
    /\ LET step == deserialize_bytes(d, Head(work).name, [i \in 1..Head(work).ty.n |-> 0])
       IN DeReturn(step, "deserialize_bytes", <<>>, <<Leaf("bytes", step.r.v)>>)

\* the same frame of the reading visit: the entry that was on top
DStructFrame ==
    [op |-> "struct_end", name |-> Head(work).name,
     parent |-> IF d.stack_name # <<>> /\ Last(d.stack_name) \in DOMAIN d.stack
                THEN d.stack[Last(d.stack_name)] ELSE Entry(0, NullPtr)]

DeserializeStructStart ==
    /\ Deserializing /\ Visiting({"struct"})
    /\ DeReturn(deserialize_struct_start(d, Head(work).name), "deserialize_struct_start",
                Append(FieldReads(Head(work).ty.fields), DStructFrame), <<>>)

DeserializeStructEnd ==
    /\ Deserializing /\ Head(work).op = "struct_end"
    /\ DeReturn(deserialize_struct_end(d), "deserialize_struct_end", <<>>, <<>>)

\* deserialize_vec up to its loop, called as such or by deserialize_array
DeserializeVec ==
    /\ Deserializing /\ Visiting({"vec", "array"})
    /\ LET step == deserialize_vec_enter(d, Head(work).name)
           ty == Head(work).ty
           after == IF ty.t = "vec"
                    THEN [op |-> "vec_return", name |-> Head(work).name,
                          size |-> step.r.v.size, before |-> Context(d)]
                    ELSE [op |-> "array_check", name |-> Head(work).name, N |-> ty.n,
                          size |-> step.r.v.size, before |-> Context(d)]
       IN DeReturn(step, "deserialize_vec",
                   IF step.r.ok
                   THEN Append(ElementReads(Head(work).name, ty.elem, step.r.v.item,
                                            step.r.v.size), after)
                   ELSE <<>>,
                   <<>>)

DeserializeVecPush ==
    /\ Deserializing /\ Head(work).op = "push"
    /\ \E read \in StaleReads :
         /\ read # "intact" => Stale(d, Head(work).item)
         /\ DeReturn(deserialize_vec_push(d, Head(work).name, Head(work).item, Head(work).i, read),
                     "deserialize_vec_push", <<>>, <<>>)

DeserializeVecPop ==
    /\ Deserializing /\ Head(work).op = "pop"
    /\ DeReturn(deserialize_vec_pop(d), "deserialize_vec_pop", <<>>, <<>>)

\* de.rs 205: Ok(out)
DeserializeVecReturn ==
    /\ Deserializing /\ Head(work).op = "vec_return"
    /\ last' = Call("deserialize_vec_return", Head(work).name, Ok(Head(work).size),
                    Head(work).before)
    /\ work' = Tail(work)
    /\ out' = Append(out, Leaf("len", Head(work).size))
    /\ UNCHANGED <<input, phase, s, heap, json, d, result, failed, calls>>

\* de.rs 211-222: the Vec is back, its length is checked against N
DeserializeArray ==
    /\ Deserializing /\ Head(work).op = "array_check"
    /\ LET r == deserialize_array_check(Head(work).size, Head(work).N)
       IN /\ last' = Call("deserialize_array", Head(work).name, r, Head(work).before)
          /\ work' = IF r.ok THEN Tail(work) ELSE <<>>
          /\ out' = IF r.ok THEN Append(out, Leaf("len", Head(work).N)) ELSE out
          /\ failed' = IF r.ok THEN failed ELSE r
    /\ UNCHANGED <<input, phase, s, heap, json, d, result, calls>>

\* the visit is through: from_json gives the value back
FromJsonOk ==
    /\ phase = "de" /\ failed.ok /\ work = <<>>
    /\ result' = Ok(out)
    /\ d' = deserializer_drop(d)
    /\ phase' = "done"
    /\ UNCHANGED <<input, s, heap, work, json, out, last, failed, calls>>

\* the visit failed: from_json gives the error back
FromJsonErr ==
    /\ phase = "de" /\ ~failed.ok
    /\ result' = failed
    /\ d' = deserializer_drop(d)
    /\ phase' = "done"
    /\ UNCHANGED <<input, s, heap, work, json, out, last, failed, calls>>

Next ==
    \/ SerializeBool
    \/ \E k \in IntKinds : SerializeInt(k)
    \/ SerializeString
    \/ SerializeBytes
    \/ SerializeStructStart
    \/ SerializeStructEnd
    \/ SerializeVec
    \/ SerializeVecReturn
    \/ SerializeArray
    \/ SerializeArrayReturn
    \/ ToJsonErr
    \/ ToJsonOk
    \/ Parse
    \/ DeserializeBool
    \/ \E k \in IntKinds : DeserializeInt(k)
    \/ DeserializeString
    \/ DeserializeBytes
    \/ DeserializeStructStart
    \/ DeserializeStructEnd
    \/ DeserializeVec
    \/ DeserializeVecPush
    \/ DeserializeVecPop
    \/ DeserializeVecReturn
    \/ DeserializeArray
    \/ FromJsonOk
    \/ FromJsonErr

Spec == Init /\ [][Next]_vars


\* ------------------------------------------------------------- properties

\* a value is read back as its own type
RoundTrip == input.mode = "value" /\ input.dst = input.src.ty

Expected == Flatten(input.src.ty, input.src.val)

\* the visit of the destination type is over: it returned, or the process
\* stopped
Ended == phase = "aborted" \/ (phase = "de" /\ (work = <<>> \/ ~failed.ok))

\* the visit returned the value that was serialized
ReadBack == phase = "de" /\ failed.ok /\ out = Expected


\* the value of the first member of that key
MemberOf(tree, key) ==
    tree.members[CHOOSE i \in 1..Len(tree.members) :
                    /\ tree.members[i].key = key
                    /\ \A j \in 1..(i - 1) : tree.members[j].key # key].val

Keys(tree) == [i \in 1..Len(tree.members) |-> tree.members[i].key]

Names(ty) == [i \in 1..Len(ty.fields) |-> ty.fields[i].name]

\* C1: round-trip law.  Whenever to_json of a value gave a text, the
\* visit of the value's own type over the parsed text reads the value
\* back, field for field.
C1_RoundTripLaw ==
    (RoundTrip /\ json.ok /\ Ended) => ReadBack

\* the records with a fixed array of k UserConfig records
HasUsers(ty) == \E n \in 0..MaxLen : ty \in {Config(n), FullConfig(n)}

UserObject(u) == JObj(<<Member("user", JNum(u[1])), Member("password", JNum(u[2]))>>)

\* C2: array fidelity.  The text of a record whose field users is a fixed
\* array of k records has a root Object whose keys are exactly the declared
\* field names, so users occurs once and no element sits under a field
\* name; the value of users is an Array of exactly k Objects, element i
\* being the Object of record i.
C2_ArrayFidelity ==
    (input.mode = "value" /\ HasUsers(input.src.ty) /\ json.ok) =>
        LET root == json.v.tree
            users == MemberOf(root, "users")
            vals == input.src.val[2]
        IN /\ root.k = "Object"
           /\ Keys(root) = Names(input.src.ty)
           /\ Cardinality({i \in 1..Len(root.members) : root.members[i].key = "users"}) = 1
           /\ users.k = "Array"
           /\ Len(users.items) = Len(vals)
           /\ \A i \in 1..Len(vals) : users.items[i] = UserObject(vals[i])

C2_Witness ==
    /\ input.mode = "value" /\ input.src.ty = Config(2) /\ json.ok
    /\ Len(MemberOf(json.v.tree, "users").items) = 2

\* an Array of records followed by further fields
FollowedByFields(ty) == ty = UsersVec \/ \E n \in 0..MaxLen : ty = FullConfig(n)

\* C3: array-of-records deserialization.  Reading a root record whose
\* Array of k Objects is followed by further fields succeeds with element
\* i read from array element i and the later fields read from the root,
\* and no operation fails with InvalidOperation.
C3_ArrayThenFields ==
    (RoundTrip /\ FollowedByFields(input.src.ty) /\ json.ok) =>
        /\ ~(~failed.ok /\ failed.e = "InvalidOperation")
        /\ Ended => ReadBack

\* the length of the one array field of Items(n) / Config(n)
ArrayLen(ty) == ty.fields[Len(ty.fields)].ty.n

SameFamily(a, b) ==
    \/ \E m, n \in 0..MaxLen : a = Items(m) /\ b = Items(n)
    \/ \E m, n \in 0..MaxLen : a = Config(m) /\ b = Config(n)

\* C4: fixed-array length enforcement.  Reading an Array of M elements
\* into a fixed array of N gives InvalidOperation when M # N and the N
\* elements in order when M = N.
C4_LengthEnforced ==
    (input.mode = "value" /\ SameFamily(input.src.ty, input.dst) /\ json.ok /\ Ended) =>
        IF ArrayLen(input.src.ty) # ArrayLen(input.dst)
        THEN phase = "de" /\ failed = Err("InvalidOperation")
        ELSE ReadBack

\* the records with a zero-length fixed array
EmptyArray == RoundTrip /\ input.src.ty \in {Items(0), Config(0), FullConfig(0)}

ArrayName == IF input.src.ty = Items(0) THEN "items" ELSE "users"

\* C5: empty-array round trip.  A zero-length fixed array is written as
\* an empty Array and read back as a zero-length array without error; no
\* element context is pushed by either pass, and when deserialize_array
\* returns the context stack is what it was before the field.
C5_EmptyArray ==
    EmptyArray =>
        /\ phase # "aborted"
        /\ failed.ok
        /\ phase \in {"text", "de", "done"} =>
              json.ok /\ MemberOf(json.v.tree, ArrayName) = JArr(<<>>)
        /\ DOMAIN s.stack \subseteq {"", "users", "items", "wifi"}
        /\ DOMAIN d.stack \subseteq {"", "wifi"}
        /\ last.op # "deserialize_vec_push"
        /\ last.op = "deserialize_array" => (last.r.ok /\ Context(d) = last.before)
        /\ Ended => ReadBack

C5_Witness ==
    /\ EmptyArray /\ input.src.ty = Items(0)
    /\ last.op = "deserialize_array"
    /\ out = <<Leaf("len", 0)>>


IntReads == {"deserialize_" \o k : k \in IntKinds}

ScalarReads == IntReads \cup {"deserialize_bool", "deserialize_string", "deserialize_bytes"}

\* the last call was a scalar read with a name on an Object context, and
\* it has just returned
NamedRead(ops) ==
    /\ phase = "de"
    /\ last.op \in ops
    /\ last.name # ""
    /\ last.before.stack_name # <<>>
    /\ Last(last.before.stack_name) \in DOMAIN last.before.stack
    /\ last.before.stack[Last(last.before.stack_name)].tree.k = "Object"

\* the Object that read was made on
ReadFrom == last.before.stack[Last(last.before.stack_name)].tree

Present == \E i \in 1..Len(ReadFrom.members) : ReadFrom.members[i].key = last.name

\* C6: scalar read errors.  A scalar read by name on an Object fails with
\* NotFound when the Object has no member of that name, and with TypeError
\* when the member is a String and a number was asked for or is no Bool
\* and a boolean was asked for; either way the context stack is unchanged.
C6_ScalarReadErrors ==
    NamedRead(ScalarReads) =>
        /\ ~Present => (last.r = Err("NotFound") /\ Context(d) = last.before)
        /\ (Present /\ last.op \in IntReads /\ MemberOf(ReadFrom, last.name).k = "String") =>
              (last.r = Err("TypeError") /\ Context(d) = last.before)
        /\ (Present /\ last.op = "deserialize_bool" /\ MemberOf(ReadFrom, last.name).k # "Bool") =>
              (last.r = Err("TypeError") /\ Context(d) = last.before)

\* the destination kinds narrower than 64 bits
NarrowKinds == {"u8", "i8", "u16", "i16", "u32", "i32"}

KindOf(op) == CHOOSE k \in IntKinds : op = "deserialize_" \o k

\* C7: integer range validation.  A read of a Number n into an 8, 16 or
\* 32-bit destination returns n when n is in the destination's range and
\* TypeError when it is not; nothing comes back wrapped or truncated.
C7_RangeValidated ==
    (/\ NamedRead({"deserialize_" \o k : k \in NarrowKinds})
     /\ Present
     /\ MemberOf(ReadFrom, last.name).k = "Number") =>
        LET n == MemberOf(ReadFrom, last.name).n
        IN last.r = IF InRange(KindOf(last.op), n) THEN Ok(n) ELSE Err("TypeError")

C7_Witness ==
    /\ NamedRead({"deserialize_u8"})
    /\ Present
    /\ MemberOf(ReadFrom, last.name) = JNum(Small(300))
    /\ last.r = Err("TypeError")

\* C8: complete or first error.  Every pass returns; once an operation
\* failed nothing of the visit is left to run, and to_json then returns
\* no text but an error of the kind of that first failure.
C8_FirstError ==
    /\ phase # "aborted"
    /\ ~failed.ok => work = <<>>
    /\ (input.mode = "value" /\ phase # "ser" /\ ~json.ok) => (~failed.ok /\ json.e = failed.e)

\* C9: parse failure kind.  For a malformed text the deserializer's parse
\* fails with ParseError and no context stack is created.
C9_ParseError ==
    (last.op = "parse" /\ json.ok /\ ~json.v.wf) =>
        (last.r = Err("ParseError") /\ d = NoDeserializer)

\* the record with one buffer of L bytes, L >= 1
IsSerial(ty) == \E n \in 1..MaxLen : ty = Serial(n)

\* C10: byte-buffer round trip.  serialize_bytes of a buffer b of L >= 1
\* bytes, then deserialize_bytes into a destination of length L, returns
\* the count L and leaves the destination equal to b.
C10_BytesRoundTrip ==
    (RoundTrip /\ IsSerial(input.src.ty) /\ phase \in {"de", "done"}) =>
        /\ json.ok /\ failed.ok
        /\ last.op = "deserialize_bytes" =>
              last.r = Ok([count |-> Len(input.src.val[1]), buffer |-> input.src.val[1]])
        /\ Ended => ReadBack

C10_Witness ==
    /\ RoundTrip /\ input.src.ty = Serial(MaxLen)
    /\ \A i \in 1..MaxLen : input.src.val[1][i] = 0
    /\ last.op = "deserialize_bytes"
    /\ last.r.ok /\ last.r.v.count = MaxLen

\* ------------------------------------------------------------ serializer
\* the String node a step has just created: the newest node of the heap
Written == heap'[Len(heap')]

\* C11: hex encoding.  serialize_bytes of a buffer of L bytes writes a
\* String of exactly 2 * L characters, all of them among 0-9 and a-f,
\* the two characters of byte i being its high and its low hex digit;
\* there is no prefix and no separator.
C11_HexEncoding ==
    [][(Serializing /\ Visiting({"bytes"}) /\ last'.op = "serialize_bytes" /\ last'.r.ok) =>
          LET v == Head(work).val
          IN /\ Len(heap') = Len(heap) + 1
             /\ Written.k = "String"
             /\ Len(Written.s) = 2 * Len(v)
             /\ \A j \in 1..Len(Written.s) : \E x \in 1..16 : Written.s[j] = HexDigits[x]
             /\ \A i \in 1..Len(v) :
                   /\ Written.s[2 * i - 1] = HexDigits[(v[i] \div 16) + 1]
                   /\ Written.s[2 * i] = HexDigits[(v[i] % 16) + 1]]_vars

\* a buffer of MaxLen bytes with a byte below 16 and a byte above was written
C11_Witness ==
    /\ last.op = "serialize_bytes" /\ last.r.ok
    /\ input.src.ty = Serial(MaxLen)
    /\ input.src.val[1][1] = 1 /\ input.src.val[1][MaxLen] = 171
    /\ heap[Len(heap)].k = "String"
    /\ Len(heap[Len(heap)].s) = 2 * MaxLen

\* to_json has returned: its serializer is gone
ToJsonReturned == input.mode = "value" /\ phase \in {"text", "de", "done"}

\* from_json has returned: its deserializer is torn down
TornDown == phase = "done" /\ d.rel # <<>>

\* C12: exactly-once release.  No node the serializer created and no copy
\* the deserializer made is ever released twice, whether through a parent
\* or through a context-stack entry, and once the pass is over, on success
\* or failure, each has been released exactly once.
C12_ExactlyOnce ==
    /\ \A i \in 1..Len(heap) : heap[i].rel <= 1
    /\ \A i \in 1..Len(d.rel) : d.rel[i] <= 1
    /\ ToJsonReturned => \A i \in 1..Len(heap) : heap[i].rel = 1
    /\ TornDown => \A i \in 1..Len(d.rel) : d.rel[i] = 1

\* C13: serializer end_struct underflow.  serialize_struct_end pops the
\* current context; when the pop would leave the context stack empty it
\* returns an error and pops nothing, so the root entry stays on the stack
\* until the root is printed.
C13_EndStructUnderflow ==
    last.op = "serialize_struct_end" =>
        IF Len(last.before.stack_name) <= 1
        THEN ~last.r.ok /\ Context(s) = last.before
        ELSE last.r.ok /\ s.stack_name = Pop(last.before.stack_name)

\* C13 as amended: serialize_struct_end always returns Ok and pops the
\* name on top, also when that leaves stack_name empty; it removes nothing
\* from the context map, so after the root's struct end the root entry is
\* still in the map under "" for print_unformatted to find.
C13_EndStructPops ==
    last.op = "serialize_struct_end" =>
        /\ last.r.ok
        /\ s.stack_name = Pop(last.before.stack_name)
        /\ s.stack = last.before.stack
        /\ "" \in DOMAIN s.stack

\* the root's struct end has popped the last name
C13_Witness ==
    /\ last.op = "serialize_struct_end"
    /\ last.before.stack_name = <<"">>
    /\ last.r.ok
    /\ s.stack_name = <<>>
    /\ "" \in DOMAIN s.stack

\* ---------------------------------------------------------- deserializer
\* a map without the entry of a key
Without(stack, key) == [x \in (DOMAIN stack) \ {key} |-> stack[x]]

C15_RootPresent ==
    phase = "de" =>
        /\ d.stack_name # <<>>
        /\ d.stack_name[1] = ""
        /\ "" \in DOMAIN d.stack
        /\ d.stack[""].tree = json.v.tree
        /\ d.rel[d.stack[""].id] = 0

\* ------------------------------------------------------------ both passes
\* the name is on the stack of names and has an entry in the map
Live(c, name) ==
    /\ \E i \in 1..Len(c.stack_name) : c.stack_name[i] = name
    /\ name \in DOMAIN c.stack

NoTwoAlike(q) == \A i, j \in 1..Len(q) : i # j => q[i] # q[j]

SerPushes == {"serialize_struct_start", "serialize_vec", "serialize_array"}

\* C16: unique live names.  In both passes a push under a non-empty name
\* that a live stack entry already has fails with an error and leaves the
\* stack, with that entry, as it was; the stack of names never holds a
\* name twice.
C16_UniqueLiveNames ==
    /\ NoTwoAlike(s.stack_name)
    /\ NoTwoAlike(d.stack_name)
    /\ (last.op \in SerPushes /\ last.name # "" /\ Live(last.before, last.name)) =>
          (~last.r.ok /\ Context(s) = last.before)
    /\ (phase = "de" /\ last.op = "deserialize_struct_start" /\ last.name # ""
            /\ Live(last.before, last.name)) =>
          (~last.r.ok /\ Context(d) = last.before)

\* the node on top of a context, and its kind
TopOf(c) == c.stack[Last(c.stack_name)]

OnTop(c, kind) ==
    /\ c.stack_name # <<>>
    /\ Last(c.stack_name) \in DOMAIN c.stack
    /\ heap[TopOf(c)].k = kind

\* C17: serializer begin_struct with a non-empty name under an Array.
\* With an Array on top, serialize_struct_start(name), name non-empty,
\* succeeds, appends one new empty Object as the last element of that
\* Array, under no key, and pushes a context of a new name whose node is
\* that Object.
C17_NamedStructUnderArray ==
    (last.op = "serialize_struct_start" /\ last.name # "" /\ OnTop(last.before, "Array")) =>
        /\ last.r.ok
        /\ s.stack_name = Append(last.before.stack_name, Last(s.stack_name))
        /\ Last(s.stack_name) \notin DOMAIN last.before.stack
        /\ heap[TopOf(s)] = [k |-> "Object", kids |-> <<>>, rel |-> 0]
        /\ Last(heap[TopOf(last.before)].kids) = Kid("", TopOf(s))

\* ------------------------------------------------------------ serializer
ScalarKinds == IntKinds \cup {"bool", "string", "bytes"}

ScalarWrites == {"serialize_" \o k : k \in ScalarKinds}

\* the node a scalar of a kind is written as
Rendered(ty, val) ==
    CASE ty.t = "bool" -> JBool(val)
      [] ty.t = "string" -> JStr(val)
      [] ty.t = "bytes" -> JStr(hex_string(val))
      [] OTHER -> JNum(as_f64(val))

\* a scalar write is about to run on a live container of a kind
ScalarWriteOn(kind) ==
    /\ Serializing
    /\ Head(work).op = "visit" /\ Head(work).ty.t \in ScalarKinds
    /\ OnTop(s, kind) /\ heap[TopOf(s)].rel = 0

\* the handler has returned (the step is not a fault)
Returned == last'.op \in ScalarWrites /\ calls' = calls + 1

Keyed(h, id, key) == {i \in 1..Len(h[id].kids) : h[id].kids[i].key = key}

\* C19: insert / overwrite of scalars.  While the current write target is
\* an Object, a scalar write under name n leaves the Object with exactly
\* one entry keyed n, holding the value just written: a second write
\* under a name replaces the first and adds no duplicate key.
C19_InsertOverwrite ==
    [][(ScalarWriteOn("Object") /\ Returned /\ last'.r.ok) =>
          LET at == Keyed(heap', TopOf(s), Head(work).name)
          IN /\ Cardinality(at) = 1
             /\ \A i \in at :
                   Snapshot(heap', heap'[TopOf(s)].kids[i].id)
                       = Rendered(Head(work).ty, Head(work).val)]_vars

\* the tree a typed value is to be written as
RECURSIVE Expect(_, _)
Expect(ty, val) ==
    CASE ty.t = "struct" ->
            JObj([i \in 1..Len(ty.fields) |->
                    Member(ty.fields[i].name, Expect(ty.fields[i].ty, val[i]))])
      [] ty.t \in {"array", "vec"} -> JArr([i \in 1..Len(val) |-> Expect(ty.elem, val[i])])
      [] ty.t = "named" -> Expect(ty.inner, val)
      [] ty.t = "script" -> Expect(ty.parts[Len(ty.parts)], val[Len(val)])
      [] OTHER -> Rendered(ty, val)

\* serialize_vec / serialize_array, called on an Object, is about to return
SequenceReturns ==
    /\ Serializing
    /\ Head(work).op \in {"vec_exit", "array_exit"}
    /\ Head(work).parent # 0 /\ heap[Head(work).parent].k = "Object"
    /\ last'.op \in {"serialize_vec_return", "serialize_array_return"}
    /\ last'.r.ok

\* C20: write_sequence / write_fixed_array, effect and frame.  Called
\* with name n on an Object P, serialize_vec / serialize_array on success
\* has added to P exactly one entry, keyed n, an Array with one element
\* per item in item order; the current write target is then P again and
\* the stack is as deep as before the call.
C20_SequenceFrame ==
    [][SequenceReturns =>
          LET f == Head(work)
              made == heap'[f.parent].kids[Len(f.kids) + 1].id
          IN /\ Len(heap'[f.parent].kids) = Len(f.kids) + 1
             /\ SubSeq(heap'[f.parent].kids, 1, Len(f.kids)) = f.kids
             /\ heap'[f.parent].kids[Len(f.kids) + 1].key = f.name
             /\ Snapshot(heap', made) = Expect(f.ty, f.items)
             /\ s'.stack_name = f.before.stack_name
             /\ get_current_object(s') = Ok(f.parent)]_vars

\* a scalar, a sequence or a named record is about to be written while no
\* context is open, and the handler returns
WriteOnEmptyStack ==
    /\ Serializing
    /\ Head(work).op = "visit"
    /\ s.stack_name = <<>>
    /\ \/ Head(work).ty.t \in ScalarKinds \cup {"vec", "array"}
       \/ Head(work).ty.t = "struct" /\ Head(work).name # ""
    /\ calls' = calls + 1

\* C21: serializer operations on an empty stack.  A scalar write, a
\* serialize_vec / serialize_array and a serialize_struct_start with a
\* non-empty name, called while stack_name is empty (before a root was
\* opened or after it was closed), return InvalidOperation and leave the
\* stack and every node made so far as they were; the Array a sequence
\* write made for itself is released again.
C21_EmptyStackRefused ==
    [][WriteOnEmptyStack =>
          /\ last'.r = Err("InvalidOperation")
          /\ s' = s
          /\ Len(heap') >= Len(heap)
          /\ SubSeq(heap', 1, Len(heap)) = heap
          /\ \A i \in (Len(heap) + 1)..Len(heap') : heap'[i].rel = 1]_vars

\* a Vec was written after the root record was closed
C21_Witness ==
    /\ last.op = "serialize_vec"
    /\ last.before.stack_name = <<>> /\ "" \in DOMAIN last.before.stack
    /\ last.r = Err("InvalidOperation")
    /\ phase = "ser"

\* ---------------------------------------------------------- deserializer
\* the node a scalar read under the name of the running visit resolves to
Target == get_item(d, Head(work).name).v.node

\* a byte read is about to run on a node of a kind, and returns
BytesReadOn(kind) ==
    /\ Deserializing /\ Visiting({"bytes"})
    /\ get_item(d, Head(work).name).ok
    /\ Target.k = kind
    /\ calls' = calls + 1

\* even length and hex digits only
HexText(str) == Len(str) % 2 = 0 /\ \A i \in 1..Len(str) : is_ascii_hexdigit(str[i])

\* the bytes a text stands for when read as hex, and when read raw
Decoded(str) ==
    [i \in 1..(Len(str) \div 2) |-> 16 * hex_value(str[2 * i - 1]) + hex_value(str[2 * i])]

Raw(str) == [i \in 1..Len(str) |-> as_byte(str[i])]

\* the part of the destination a byte read reports as filled
Filled(r) == SubSeq(r.v.buffer, 1, r.v.count)

FirstOf(bytes, L) == SubSeq(bytes, 1, Min(Len(bytes), L))

\* C22: byte read from a String node chooses hex or raw.  deserialize_bytes
\* on a String node decodes the text as hex exactly when it has even length
\* and holds hex digits only (either case), otherwise copies its raw bytes;
\* it returns no error for a String node, and the empty text gives count 0
\* with the destination untouched.
C22_HexOrRaw ==
    [][BytesReadOn("String") =>
          LET L == Head(work).ty.n
              got == last'.r
          IN /\ got.ok
             /\ Filled(got) = IF HexText(Target.s) THEN FirstOf(Decoded(Target.s), L)
                              ELSE FirstOf(Raw(Target.s), L)
             /\ Target.s = <<>> => got.v.count = 0 /\ got.v.buffer = [i \in 1..L |-> 0]]_vars

\* the bytes of a source node: of a text, of an Array of numbers
SourceBytes(node) ==
    IF node.k = "String"
    THEN IF HexText(node.s) THEN Decoded(node.s) ELSE Raw(node.s)
    ELSE [i \in 1..Len(node.items) |-> int_as_u8(node.items[i].n)]

\* C23: byte read capped by the destination.  For a destination of length
\* L and a source that holds more (a hex text of more than 2L digits, a raw
\* text of more than L bytes, an Array of more than L numbers)
\* deserialize_bytes succeeds, returns L and fills the destination with the
\* first L source bytes, the decoded ones for a hex text.
C23_CappedByDestination ==
    [][/\ BytesReadOn("String") \/ BytesReadOn("Array")
       /\ Target.k = "Array" => \A i \in 1..Len(Target.items) : Target.items[i].k = "Number"
       /\ Len(SourceBytes(Target)) > Head(work).ty.n
       => LET L == Head(work).ty.n
              got == last'.r
          IN /\ got.ok
             /\ got.v.count = L
             /\ got.v.buffer = SubSeq(SourceBytes(Target), 1, L)]_vars

\* the node kinds a parsed text can hold
NodeKinds == {"Null", "Bool", "Number", "String", "Array", "Object"}

\* C24: text read coercion.  deserialize_string gives the text of a String
\* node unchanged and the textual form of a Number node, and returns
\* TypeError for a Bool, Null, Array or Object node; the context stack is
\* the same after the call in every case, a failed lookup included.
C24_TextCoercion ==
    [][(Deserializing /\ Visiting({"string"}) /\ calls' = calls + 1) =>
          /\ d' = d
          /\ get_item(d, Head(work).name).ok =>
                /\ Target.k \in NodeKinds
                /\ last'.r = CASE Target.k = "String" -> Ok(Target.s)
                               [] Target.k = "Number" -> Ok(display_f64(Target.n))
                               [] OTHER -> Err("TypeError")]_vars

\* the number 300 was read as the text 300
C24_Witness ==
    /\ NamedRead({"deserialize_string"}) /\ last.name = "version"
    /\ Present /\ MemberOf(ReadFrom, "version") = JNum(Small(300))
    /\ last.r = Ok(<<"3", "0", "0">>)

\* the tree of the context on top
TopTree(c) == c.stack[Last(c.stack_name)].tree

\* a record is about to be opened under a name on a live context, and
\* deserialize_struct_start returns
StructStartUnder ==
    /\ Deserializing /\ Visiting({"struct"})
    /\ Head(work).name # ""
    /\ d.stack_name # <<>> /\ Last(d.stack_name) \in DOMAIN d.stack
    /\ calls' = calls + 1

\* an Object has no member of that name
Lacks(tree, name) == \A i \in 1..Len(tree.members) : tree.members[i].key # name

\* C25: deserializer begin_struct lookup failure.  deserialize_struct_start
\* with a non-empty name returns NotFound both when the Object on top has
\* no member of that name and when the node on top is no Object; in both
\* cases nothing is pushed and the stack is unchanged.
C25_StructStartNotFound ==
    [][(StructStartUnder /\ (TopTree(d).k # "Object" \/ Lacks(TopTree(d), Head(work).name))) =>
          /\ last'.r = Err("NotFound")
          /\ d' = d]_vars

\* the positions of the stack of names that a step keeps
Kept == 1..Min(Len(d.stack_name), Len(d'.stack_name))

\* the context of a name is the same allocation after the step, holds the
\* same tree and has not been released
Untouched(name) ==
    /\ name \in DOMAIN d'.stack
    /\ d'.stack[name] = d.stack[name]
    /\ d'.rel[d.stack[name].id] = 0

\* C26: reads never alter the source tree.  Every context pushed by
\* deserialize_struct_start or deserialize_vec is a copy of its own, so a
\* step of the read pass, a pop that releases a nested context included,
\* leaves the parsed root tree and every context that stays on the stack
\* as they were: same node, same tree, not released.
C26_SourceUntouched ==
    [][(phase = "de" /\ phase' = "de") =>
          /\ d.stack[""].tree = json.v.tree
          /\ Untouched("")
          /\ \A i \in Kept :
                /\ d'.stack_name[i] = d.stack_name[i]
                /\ d.stack_name[i] \in DOMAIN d.stack => Untouched(d.stack_name[i])]_vars

\* the round a pop closes: the index before the next push, or the last one
RoundOf(nxt) == IF nxt.op = "push" THEN nxt.i - 1 ELSE nxt.size - 1

\* C27: read_sequence protocol.  deserialize_vec on an Array of k elements
\* runs k rounds in index order: round i pushes a copy of element i under
\* the per-index name, which is the top when the element's visit starts;
\* the entry removed at the end of round i is that same per-index entry;
\* and on success the stack after the call is the stack before the call,
\* for scalar and for record elements alike.
C27_SequenceRounds ==
    [][(phase = "de" /\ failed.ok /\ work # <<>>) =>
          /\ (Head(work).op = "push" /\ last'.op = "deserialize_vec_push" /\ last'.r.ok) =>
                /\ d'.stack_name = Append(d.stack_name, element_key(Head(work).name, Head(work).i))
                /\ TopTree(d') = Head(work).item.node.items[Head(work).i + 1]
                /\ work'[1].op = "visit" /\ work'[1].name \in {"", "elem"}
          /\ (Head(work).op = "pop" /\ calls' = calls + 1) =>
                LET key == element_key(work[2].name, RoundOf(work[2]))
                IN /\ last'.r.ok
                   /\ d.stack_name # <<>> /\ Last(d.stack_name) = key
                   /\ d'.stack_name = Pop(d.stack_name)
                   /\ d'.stack = Without(d.stack, key)
          /\ (Head(work).op \in {"vec_return", "array_check"} /\ last'.r.ok
                /\ last'.op \in {"deserialize_vec_return", "deserialize_array"}) =>
                Context(d') = Head(work).before]_vars

\* ------------------------------------------------------------ both passes
\* the struct end of a record that was opened under a name returns
NestedRecordEnds(running) ==
    /\ running /\ work # <<>>
    /\ Head(work).op = "struct_end" /\ Head(work).name # ""
    /\ calls' = calls + 1

\* C28: context restored after a nested record.  In both passes, after a
\* struct start under a non-empty name, the visits of the fields and the
\* matching struct end, the current context is the node that was current
\* before the struct start, also when the name or an inner field name is
\* the name of a live or an earlier context; the later fields of the
\* enclosing record go to, or come from, that node.
C28_ContextRestored ==
    [][/\ NestedRecordEnds(phase = "ser" /\ failed.ok) =>
             /\ get_current_object(s') = Ok(Head(work).parent)
             /\ heap'[Head(work).parent].rel = 0
       /\ NestedRecordEnds(phase = "de" /\ failed.ok) =>
             /\ d'.stack_name # <<>> /\ Last(d'.stack_name) \in DOMAIN d'.stack
             /\ d'.stack[Last(d'.stack_name)] = Head(work).parent
             /\ d'.rel[Head(work).parent.id] = 0]_vars

\* ------------------------------------------------------------ serializer
\* the first Object the pass created: the one of its first struct start
\* under the empty name (a named struct start needs a context, and an
\* element Object an Array, both of which need that root first)
MadeRoot == \E i \in 1..Len(heap) : heap[i].k = "Object"

FirstRoot == CHOOSE i \in 1..Len(heap) : heap[i].k = "Object" /\ \A j \in 1..(i - 1) : heap[j].k # "Object"

\* the visit is through and print_unformatted is called
Printing == phase = "ser" /\ failed.ok /\ work = <<>> /\ last'.op = "print_unformatted"

\* C29: root identity in the serializer.  The node print / print_unformatted
\* renders is the Object made by the first serialize_struct_start("") of
\* the pass, still allocated, never a nested context and never a later
\* replacement: a serialize_struct_start("") called while the current
\* container is an Object does not discard or replace the root.  When no
\* root was made, print returns NotFound.
C29_RootIdentity ==
    [][Printing =>
          IF MadeRoot
          THEN /\ "" \in DOMAIN s.stack /\ s.stack[""] = FirstRoot
               /\ heap[FirstRoot].rel = 0
               /\ last'.r = Ok(Snapshot(heap, FirstRoot))
          ELSE last'.r = Err("NotFound")]_vars

\* a sequence is about to be written while the container on top is an Array
SequenceInSequence ==
    /\ Serializing /\ Visiting({"vec", "array"})
    /\ OnTop(s, "Array") /\ heap[TopOf(s)].rel = 0

\* C30: sequence directly inside a sequence.  serialize_vec /
\* serialize_array called while the current write target is an Array
\* returns TypeError, adds no element to that Array and pushes no context:
\* the stack is the same as before the call.
C30_SequenceInSequence ==
    [][(SequenceInSequence /\ calls' = calls + 1) =>
          /\ last'.op \in {"serialize_vec", "serialize_array"}
          /\ last'.r = Err("TypeError")
          /\ s' = s
          /\ SubSeq(heap', 1, Len(heap)) = heap
          /\ \A i \in (Len(heap) + 1)..Len(heap') : heap'[i].rel > 0]_vars

\* the inner Vec of a Vec of Vecs was refused
C30_Witness ==
    /\ phase = "ser"
    /\ last.op = "serialize_vec" /\ last.r = Err("TypeError")
    /\ OnTop(last.before, "Array")
    /\ Context(s) = last.before
    /\ heap[TopOf(s)].kids = <<>>

=============================================================================
